---- MODULE Spec2Model ----
(***************************************************************************)
(* Session state reconciliation and time accumulation engine of the        *)
(* employee productivity tracker (core/session_manager.py, main.py).       *)
(* Time is wall-clock time in whole seconds.  The SessionManager object is *)
(* the record `session`; every public operation of the class is an         *)
(* operator from a session record to a session record, and one action.     *)
(***************************************************************************)
EXTENDS Integers, Sequences, FiniteSets, TLC

\* ------------------------------------------------------------------ constants

\* Python's None for the nullable timestamps and totals.
None == -1000

\* a text datetime.fromisoformat rejects
Unparseable == -2000

\* the empty text, or one of white space only
EmptyText == -3000

IDLE_TIMEOUT_SECONDS == 300

\* IdleDetector.__init__: the default of idle_timeout
idle_timeout == 300

ACTIVITY_SCORE_WINDOW_SECONDS == 60

monitor_interval_seconds == 10

\* "if gap > 60" in _power_monitor_loop
sleep_gap_seconds == 60

\* duration of the fake sleep event clock_in writes when storage holds none
test_patch_seconds == 300

\* ------------------------------------------------------------------ bounds

\* the wall clock runs from 0 to MaxTime
MaxTime == 80

\* how many times the wall clock may be set backward
MaxSkews == 1

\* the wall clock runs from 0 to MaxTimeSkew where it may be set backward
MaxTimeSkew == 71

\* the wall clock runs from 0 to MaxTimeConc where the monitor thread's remote
\* call is a step of its own
MaxTimeConc == 111


\* the duration codec is applied to 0 .. MaxCodecSeconds
MaxCodecSeconds == 999999

\* the texts handed to the codec's parser have at most MaxTextLen characters
MaxTextLen == 7

\* the activity window holds at most MaxIdleSamples idle samples
MaxIdleSamples == 1

\* the wall clock runs from 0 to MaxTimeActivity where the activity window is
\* followed
MaxTimeActivity == 40

\* no more than MaxWorkers threads of one loop are started
MaxWorkers == 2

\* the wall clock runs from 0 to MaxTimeWorkers where the threads are followed
MaxTimeWorkers == 71

\* time.time() runs from 0 to MaxTimeDetector where the idle detector is followed
MaxTimeDetector == 610

\* the wall clock runs from 0 to MaxTimeLock where the lock screen is followed
MaxTimeLock == 80

\* ------------------------------------------------------------------ inputs

LOGGED_OUT == "logged_out"
CLOCKED_IN == "clocked_in"
ON_BREAK == "on_break"
IDLE == "idle"

SessionState == {LOGGED_OUT, CLOCKED_IN, ON_BREAK, IDLE}

\* outcome of a call to the remote attendance API: (ok, ...), (not ok, ...)
\* or an exception
ApiResults == {"ok", "fail", "raise"}

\* outcome of read_local_storage / write_local_storage
IoResults == {"ok", "fail"}

\* awake time that passes in one step, and the length of a suspend: long
\* enough to be seen as a sleep gap by the next tick of the monitor
awake_seconds == 4 * monitor_interval_seconds

suspend_seconds == monitor_interval_seconds + sleep_gap_seconds + 1

Delays == {awake_seconds, suspend_seconds}

\* samples the activity detector delivers: (is_active, idle_seconds)
ActivitySamples ==
    { <<TRUE, 0>>, <<FALSE, IDLE_TIMEOUT_SECONDS - 1>>, <<FALSE, IDLE_TIMEOUT_SECONDS>> }

\* payloads of the periodic attendance fetch handed to apply_server_totals:
\* in_time, out_time (the ISO text of an instant, written as that instant, or
\* None, EmptyText, Unparseable), break_seconds, on_break ("None", "True",
\* "False"), active_seconds
Payload(i, o, b, ob, a) ==
    [in_time |-> i, out_time |-> o, break_seconds |-> b, on_break |-> ob, active_seconds |-> a]

\* fetches that report one total each, and one that reports negative totals
SummaryPayloads ==
    { Payload(None, None, None, "None", 3600),
      Payload(None, None, 7, "None", None),
      Payload(0, None, None, "None", None),
      Payload(None, 40, None, "None", None),
      Payload(None, None, -5, "None", -5) }

\* fetches of every shape: no argument given, texts that are not well formed,
\* one argument given, all arguments given
FetchPayloads ==
    { Payload(None, None, None, "None", None),
      Payload(EmptyText, Unparseable, None, "None", None),
      Payload(Unparseable, None, None, "None", None),
      Payload(0, None, None, "None", None),
      Payload(awake_seconds, None, None, "None", None),
      Payload(None, 2 * awake_seconds, None, "None", None),
      Payload(None, None, 7, "None", None),
      Payload(None, None, None, "None", 3600),
      Payload(None, None, None, "True", None),
      Payload(None, None, None, "False", None),
      Payload(awake_seconds, 2 * awake_seconds, 7, "True", 3600) }

ServerPayloads ==
    { Payload(None, None, None, "None", None),
      Payload(0, None, 7, "None", None),
      Payload(None, None, None, "True", None),
      Payload(None, None, None, "False", None) }

Max(a, b) == IF a >= b THEN a ELSE b

\* ------------------------------------------------------------------ duration codec

\* a text is a sequence of characters
DigitChars == << "0", "1", "2", "3", "4", "5", "6", "7", "8", "9" >>

\* Python's None where a text is expected
NoneText == << "None" >>

\* the characters of the texts handed to _parse_hms
CodecChars == { "0", "3", "5", ":", "x" }

\* str(n) for n >= 0
RECURSIVE decimal(_)
decimal(n) ==
    IF n < 10 THEN << DigitChars[n + 1] >>
    ELSE Append(decimal(n \div 10), DigitChars[(n % 10) + 1])

\* f"{n:02d}" for n >= 0
pad2(n) == IF n < 10 THEN << "0" >> \o decimal(n) ELSE decimal(n)

\* _format_hms with the minutes not reduced modulo the hour
format_hms_total_minutes(total_seconds) ==
    pad2(total_seconds \div 3600) \o << ":" >>
        \o pad2(total_seconds \div 60) \o << ":" >>
        \o pad2(total_seconds % 60)

\* _format_hms of total_seconds >= 0
format_hms(total_seconds) ==
    pad2(total_seconds \div 3600) \o << ":" >>
        \o pad2((total_seconds % 3600) \div 60) \o << ":" >>
        \o pad2(total_seconds % 60)

\* text.split(":", maxsplit)
RECURSIVE split(_, _)
split(text, maxsplit) ==
    IF maxsplit = 0 \/ \A i \in 1..Len(text) : text[i] # ":"
    THEN << text >>
    ELSE LET k == CHOOSE i \in 1..Len(text) :
                      text[i] = ":" /\ \A j \in 1..(i - 1) : text[j] # ":"
         IN  << SubSeq(text, 1, k - 1) >>
                 \o split(SubSeq(text, k + 1, Len(text)), maxsplit - 1)

\* int(p) does not raise: p is a non-empty run of digits
is_int(p) ==
    p # <<>> /\ \A i \in 1..Len(p) : \E d \in 1..10 : DigitChars[d] = p[i]

digit(c) == (CHOOSE d \in 1..10 : DigitChars[d] = c) - 1

\* int(p) for a run of digits
RECURSIVE int(_)
int(p) ==
    IF p = <<>> THEN 0
    ELSE 10 * int(SubSeq(p, 1, Len(p) - 1)) + digit(p[Len(p)])

\* parts.append(0) in place of parts.insert(0, 0)
RECURSIVE append_zeros(_)
append_zeros(parts) ==
    IF Len(parts) < 3 THEN append_zeros(Append(parts, 0)) ELSE parts

\* parts.insert(0, 0) while len(parts) < 3
RECURSIVE insert_zeros(_)
insert_zeros(parts) ==
    IF Len(parts) < 3 THEN insert_zeros(<< 0 >> \o parts) ELSE parts

\* _parse_hms: any exception gives 0
parse_hms(hms) ==
    LET text == IF hms = NoneText \/ hms = <<>> THEN format_hms(0) ELSE hms
        texts == split(text, 2)
    IN  IF \E i \in 1..Len(texts) : ~is_int(texts[i])
        THEN 0
        ELSE LET parts == insert_zeros([i \in 1..Len(texts) |-> int(texts[i])])
             IN  parts[1] * 3600 + parts[2] * 60 + parts[3]

\* ------------------------------------------------------------------ state

VARIABLES
    session,        \* the SessionManager object
    now,            \* the wall clock, datetime.now(timezone.utc)
    skews,          \* how many times the wall clock was set backward
    monitor_alive,  \* the _power_monitor_loop thread is running
    wrote,          \* the records the last operation appended to local storage
    server_break_open, \* the server holds an open break row opened by this session
    lastOp,         \* the operation that took the last step
    ret,            \* what it returned
    sent,           \* the remote calls it made, in order
    worked,         \* wall-clock seconds elapsed in CLOCKED_IN or ON_BREAK since clock-in
    dup_break_start, \* the last operation sent a break-start call while server_break_open
    answer,         \* the remote API's answer to the call of the last operation
    monitor,        \* the monitor thread's position and the locals of its loop body
    fetch,          \* the arguments of apply_server_totals, when it took the last step
    power,          \* what the sleep and wake callbacks did about the last suspend
    activity,       \* the window of activity samples and the activity score
    workers,        \* how many threads of each background loop are alive
    locked,         \* when on_lock began a break, and break_seconds at that instant
    detector,       \* the IdleDetector, its ActivityTracker and the callbacks it fired
    codec           \* the duration codec's input and what it made of it

vars ==
    << session, now, skews, monitor_alive, wrote, server_break_open,
       lastOp, ret, sent, worked, dup_break_start, answer, monitor, fetch, power, codec,
       activity, workers, locked, detector >>

\* what the operations on the session's clock and breaks leave alone
aside == << activity, workers, locked, detector >>

\* ------------------------------------------------------------------ SessionManager

\* SessionManager.__init__
NewSession ==
    [ state |-> LOGGED_OUT,
      session_start |-> None,
      break_start |-> None,
      last_update |-> None,
      is_idle |-> FALSE,
      current_idle_seconds |-> 0,
      active_seconds |-> 0,
      break_seconds |-> 0,
      idle_seconds |-> 0,
      bg_running |-> FALSE,
      last_tick |-> None,
      sleep_break_active |-> FALSE,
      sleep_gap_prehandled |-> FALSE,
      erp_in_time |-> None,
      erp_out_time |-> None,
      erp_break_seconds |-> None,
      erp_active_seconds |-> None,
      erp_state_hint |-> "None",
      erp_break_open |-> FALSE ]

clear_erp_overrides(s) ==
    [s EXCEPT !.erp_in_time = None,
              !.erp_out_time = None,
              !.erp_break_seconds = None,
              !.erp_active_seconds = None,
              !.erp_state_hint = "None",
              !.erp_break_open = FALSE]

\* the accumulator's routing without the IDLE_TIMEOUT_SECONDS test
credit_without_timeout(s, delta) ==
    IF s.state = CLOCKED_IN
    THEN IF s.is_idle
         THEN [s EXCEPT !.idle_seconds = @ + delta]
         ELSE [s EXCEPT !.active_seconds = @ + delta]
    ELSE IF s.state = ON_BREAK
         THEN [s EXCEPT !.break_seconds = @ + delta]
         ELSE s

\* the bucket a positive delta goes to
credit(s, delta) ==
    IF s.state = CLOCKED_IN
    THEN IF s.is_idle
         THEN IF s.current_idle_seconds >= IDLE_TIMEOUT_SECONDS
              THEN [s EXCEPT !.break_seconds = @ + delta]
              ELSE [s EXCEPT !.idle_seconds = @ + delta]
         ELSE [s EXCEPT !.active_seconds = @ + delta]
    ELSE IF s.state = ON_BREAK
         THEN [s EXCEPT !.break_seconds = @ + delta]
         ELSE s

\* the accumulator without its "delta <= 0" return
accumulate_signed(s, t) ==
    IF s.last_update = None
    THEN [s EXCEPT !.last_update = t]
    ELSE [credit(s, t - s.last_update) EXCEPT !.last_update = t]

\* the accumulator without its closing "self.last_update = now"
accumulate_no_advance(s, t) ==
    IF s.last_update = None
    THEN [s EXCEPT !.last_update = t]
    ELSE IF t - s.last_update <= 0
         THEN s
         ELSE credit(s, t - s.last_update)

accumulate_until_now(s, t) ==
    IF s.last_update = None
    THEN [s EXCEPT !.last_update = t]
    ELSE IF t - s.last_update <= 0
         THEN s
         ELSE [credit(s, t - s.last_update) EXCEPT !.last_update = t]

\* _start_background_tasks: the new monitor thread sets _last_tick when it starts
start_background_tasks(s, t) ==
    IF s.bg_running THEN s ELSE [s EXCEPT !.bg_running = TRUE, !.last_tick = t]

stop_background_tasks(s) == [s EXCEPT !.bg_running = FALSE]

\* a clock-in that does not call _clear_erp_overrides
clock_in_local_keep_overrides(s, t) ==
    start_background_tasks(
        [s EXCEPT
            !.state = CLOCKED_IN,
            !.session_start = t,
            !.last_update = t,
            !.break_start = None,
            !.is_idle = FALSE,
            !.current_idle_seconds = 0,
            !.active_seconds = 0,
            !.break_seconds = 0,
            !.idle_seconds = 0], t)

clock_in_local(s, t) ==
    start_background_tasks(
        [clear_erp_overrides(s) EXCEPT
            !.state = CLOCKED_IN,
            !.session_start = t,
            !.last_update = t,
            !.break_start = None,
            !.is_idle = FALSE,
            !.current_idle_seconds = 0,
            !.active_seconds = 0,
            !.break_seconds = 0,
            !.idle_seconds = 0], t)

\* clock_in: the local effect is that of clock_in_local; punch_in's result is dropped
clock_in(s, t) == clock_in_local(s, t)

\* the record clock_out appends to the history, lines 168-186; the other records
\* of local storage are sleep events, written as their length in seconds
history_record == -1

\* the test patch at the end of clock_in
\* stored: read_local_storage() returned a blob that holds sleep events
clock_in_wrote(stored, io) ==
    IF io = "ok" /\ ~stored THEN <<test_patch_seconds>> ELSE <<>>

clock_out(s, t) ==
    [stop_background_tasks(accumulate_until_now(s, t)) EXCEPT !.state = LOGGED_OUT]

\* clock_out appends one history record, unless storage fails
clock_out_wrote(io) == IF io = "ok" THEN <<history_record>> ELSE <<>>

\* a clock_out whose punch-out is skipped when storage fails
clock_out_calls_if_stored(io) == IF io = "ok" THEN <<"punch_out">> ELSE <<>>

\* the remote call of clock_out, made whatever became of the history record
clock_out_calls(io) == <<"punch_out">>

\* a summary that also forgets the open break
flush_closing_break(s, t) == [accumulate_until_now(s, t) EXCEPT !.break_start = None]

\* get_daily_summary changes the session by its flush only
get_daily_summary_flush(s, t) == accumulate_until_now(s, t)

\* lines 219-221
break_total(s) ==
    IF s.erp_break_seconds # None THEN Max(0, s.erp_break_seconds) ELSE Max(0, s.break_seconds)

\* lines 232-241: the end of the span shown as shift duration
effective_end(s, t, start_dt) ==
    LET e == IF s.erp_out_time # None THEN s.erp_out_time
             ELSE IF s.state = LOGGED_OUT /\ s.last_update # None THEN s.last_update
             ELSE t
    IN  IF e < start_dt THEN t ELSE e

\* lines 223-243
active_total(s, t) ==
    IF s.erp_active_seconds # None
    THEN Max(0, s.erp_active_seconds)
    ELSE LET start_dt == IF s.erp_in_time # None THEN s.erp_in_time ELSE s.session_start
         IN  IF start_dt = None
             THEN s.active_seconds
             ELSE Max(0, Max(0, effective_end(s, t, start_dt) - start_dt) - break_total(s))

\* the summary that shows the local active_seconds whatever the server sent
daily_summary_local_active(s, t) ==
    [ total_active_time |-> format_hms(s.active_seconds),
      total_break_time |-> format_hms(break_total(s)),
      total_idle_time |-> format_hms(Max(0, s.idle_seconds)) ]

\* the summary that shows the local break_seconds whatever the server sent
daily_summary_local_break(s, t) ==
    [ total_active_time |-> format_hms(active_total(s, t)),
      total_break_time |-> format_hms(Max(0, s.break_seconds)),
      total_idle_time |-> format_hms(Max(0, s.idle_seconds)) ]

\* what get_daily_summary returns after its flush
daily_summary(s, t) ==
    [ total_active_time |-> format_hms(active_total(s, t)),
      total_break_time |-> format_hms(break_total(s)),
      total_idle_time |-> format_hms(Max(0, s.idle_seconds)) ]

\* the guard of start_break without its test of break_start
start_break_refused_by_state(s) == s.state # CLOCKED_IN

start_break_refused(s) == s.state # CLOCKED_IN \/ s.break_start # None

\* start_break without the "if not self._erp_break_open" test
start_break_calls_always(s) ==
    IF ~start_break_refused(s) THEN <<"start_break">> ELSE <<>>

start_break_calls(s) ==
    IF ~start_break_refused(s) /\ ~s.erp_break_open THEN <<"start_break">> ELSE <<>>

start_break(s, t, r) ==
    IF start_break_refused(s)
    THEN s
    ELSE LET a == accumulate_until_now(s, t)
         IN  [a EXCEPT !.state = ON_BREAK,
                       !.break_start = t,
                       !.erp_break_open = IF ~a.erp_break_open /\ r = "ok" THEN TRUE ELSE @]

\* the guard of end_break with force overriding it whatever break_start is
end_break_refused_unless_forced(s, force) ==
    s.state # ON_BREAK /\ ~force

end_break_refused(s, force) ==
    s.state # ON_BREAK /\ (~force \/ s.break_start = None)

\* an end_break that sends the remote call only for a break the server holds
end_break_calls_if_open(s, force) ==
    IF end_break_refused(s, force) \/ ~s.erp_break_open THEN <<>> ELSE <<"end_break">>

end_break_calls(s, force) ==
    IF end_break_refused(s, force) THEN <<>> ELSE <<"end_break">>

\* an end_break that stays on break when the remote call fails
end_break_rollback(s, t, force, r) ==
    IF end_break_refused(s, force)
    THEN s
    ELSE LET a == accumulate_until_now([s EXCEPT !.state = ON_BREAK], t)
         IN  IF r = "ok"
             THEN [a EXCEPT !.state = CLOCKED_IN,
                            !.erp_break_open = FALSE,
                            !.break_start = None,
                            !.sleep_break_active = FALSE]
             ELSE a

end_break(s, t, force, r) ==
    IF end_break_refused(s, force)
    THEN s
    ELSE LET a == accumulate_until_now([s EXCEPT !.state = ON_BREAK], t)
         IN  [a EXCEPT !.state = CLOCKED_IN,
                       !.erp_break_open = IF r = "ok" THEN FALSE ELSE @,
                       !.break_start = None,
                       !.sleep_break_active = FALSE]

\* main.py: _has_pending_break
has_pending_break(s) ==
    s.state = ON_BREAK \/ s.break_start # None \/ s.sleep_break_active

\* main.py: on_sleep, the callback of the system's suspend notice; the
\* activity tracker it stops is not part of this record
on_sleep(s, t, r) == IF s.state = CLOCKED_IN THEN start_break(s, t, r) ELSE s

on_sleep_calls(s) == IF s.state = CLOCKED_IN THEN start_break_calls(s) ELSE <<>>

\* main.py: on_wake, the callback of the system's resume notice
on_wake(s, t, r) == IF has_pending_break(s) THEN end_break(s, t, TRUE, r) ELSE s

on_wake_calls(s) == IF has_pending_break(s) THEN end_break_calls(s, TRUE) ELSE <<>>

\* a lock screen that always asks the server for a break
on_lock_calls_always(s) == <<"start_break">>

\* main.py: on_lock, the callback of the workstation-lock notice
on_lock(s, t, r) ==
    IF s.state = CLOCKED_IN /\ ~has_pending_break(s) THEN start_break(s, t, r) ELSE s

on_lock_calls(s) ==
    IF s.state = CLOCKED_IN /\ ~has_pending_break(s) THEN start_break_calls(s) ELSE <<>>

\* main.py: on_unlock, the callback of the workstation-unlock notice
on_unlock(s, t, r) == IF has_pending_break(s) THEN end_break(s, t, TRUE, r) ELSE s

on_unlock_calls(s) == IF has_pending_break(s) THEN end_break_calls(s, TRUE) ELSE <<>>

\* no break begun by on_lock is being followed
NotLocked == [since |-> None, break_seconds |-> None]

\* IdleDetector.__init__ and ActivityTracker.__init__: time is time.time(),
\* fired the callbacks called so far
NewDetector ==
    [is_idle |-> FALSE, time |-> 0, last_activity_time |-> 0, fired |-> <<>>]

\* ActivityTracker._on_activity: an input event
on_activity(d) == [d EXCEPT !.last_activity_time = d.time]

\* ActivityTracker.get_idle_time
get_idle_time(d) == d.time - d.last_activity_time

\* the first test of _monitor
turns_idle(d) == ~d.is_idle /\ get_idle_time(d) > idle_timeout

\* a detector without hysteresis
turns_active_at_timeout(d) == d.is_idle /\ get_idle_time(d) < idle_timeout

\* the second test of _monitor; idle_timeout / 2 is a true division
turns_active(d) == d.is_idle /\ 2 * get_idle_time(d) < idle_timeout

\* one pass of the loop of _monitor
monitor_pass(d) ==
    IF turns_idle(d)
    THEN [d EXCEPT !.is_idle = TRUE, !.fired = Append(@, "on_idle")]
    ELSE IF turns_active(d)
         THEN [d EXCEPT !.is_idle = FALSE, !.fired = Append(@, "on_active")]
         ELSE d

\* __init__, lines 50-51: an empty window and a score of 0.0; the score is
\* kept as the fraction num / den
NoActivity == [samples |-> <<>>, percent |-> [num |-> 0, den |-> 1]]

\* sum(self._activity_samples)
RECURSIVE sum(_)
sum(samples) == IF samples = <<>> THEN 0 ELSE samples[1] + sum(Tail(samples))

\* a window that is never trimmed
list_append(samples, x) == Append(samples, x)

\* deque.append on a deque(maxlen=ACTIVITY_SCORE_WINDOW_SECONDS): the oldest
\* sample is dropped from a full window
deque_append(samples, x) ==
    IF Len(samples) >= ACTIVITY_SCORE_WINDOW_SECONDS
    THEN Append(Tail(samples), x)
    ELSE Append(samples, x)


\* lines 418-424 of update_activity: the window and the score
record_activity(a, is_active) ==
    LET samples == deque_append(a.samples, IF is_active THEN 1 ELSE 0)
    IN  [samples |-> samples,
         percent |-> IF Len(samples) > 0
                     THEN [num |-> 100 * sum(samples), den |-> Len(samples)]
                     ELSE a.percent]

\* __init__: no thread is started before the first clock-in
NoWorkers == [shot |-> 0, window |-> 0, monitor |-> 0]

\* _start_background_tasks, lines 517-519 and 880-888: unless _bg_running was
\* already set, one thread of each loop is created and started
started_workers(s, w) ==
    IF s.bg_running
    THEN w
    ELSE [shot |-> w.shot + 1, window |-> w.window + 1, monitor |-> w.monitor + 1]

\* a loop that never tests the flag
loop_forever(s) == TRUE

\* `while self._bg_running:` at lines 525, 758 and 827
loop_continues(s) == s.bg_running

\* the threads of one loop after one of them has tested the flag
after_test(s, alive) == IF loop_continues(s) THEN alive ELSE alive - 1

\* what update_activity does to the session record; its window and score are
\* record_activity
update_activity(s, t, is_active, idle) ==
    accumulate_until_now(
        [s EXCEPT !.is_idle = ~is_active, !.current_idle_seconds = idle], t)

\* _parse_iso_datetime: the UTC instant the text denotes, or None
parse_iso_datetime(value) ==
    IF value = None \/ value = EmptyText THEN None
    ELSE IF value = Unparseable THEN None
    ELSE value

apply_changed(p) ==
    \/ parse_iso_datetime(p.in_time) # None
    \/ parse_iso_datetime(p.out_time) # None
    \/ p.break_seconds # None
    \/ p.active_seconds # None
    \/ p.on_break # "None"

\* apply_server_totals adopting the hint in LOGGED_OUT too
apply_server_totals_any_state(s, t, p) ==
    LET in_dt == parse_iso_datetime(p.in_time)
        out_dt == parse_iso_datetime(p.out_time)
        hint == IF p.on_break = "None" THEN s.erp_state_hint
                ELSE IF p.on_break = "True" THEN ON_BREAK ELSE CLOCKED_IN
        s1 == [s EXCEPT !.erp_in_time = IF in_dt # None THEN in_dt ELSE @,
                        !.session_start =
                            IF in_dt # None /\ (@ = None \/ in_dt < @) THEN in_dt ELSE @,
                        !.erp_out_time = IF out_dt # None THEN out_dt ELSE @,
                        !.erp_break_seconds =
                            IF p.break_seconds # None THEN Max(0, p.break_seconds) ELSE @,
                        !.erp_active_seconds =
                            IF p.active_seconds # None THEN Max(0, p.active_seconds) ELSE @,
                        !.erp_state_hint = hint,
                        !.erp_break_open = IF p.on_break = "None" THEN @ ELSE p.on_break = "True"]
    IN  IF apply_changed(p)
        THEN [s1 EXCEPT !.state = IF hint # "None" THEN hint ELSE @, !.last_update = t]
        ELSE s1

\* apply_server_totals taking the server's in_time as session_start whatever
\* the session's own start
apply_server_totals_adopt_in_time(s, t, p) ==
    LET in_dt == parse_iso_datetime(p.in_time)
        out_dt == parse_iso_datetime(p.out_time)
        hint == IF p.on_break = "None" THEN s.erp_state_hint
                ELSE IF p.on_break = "True" THEN ON_BREAK ELSE CLOCKED_IN
        s1 == [s EXCEPT !.erp_in_time = IF in_dt # None THEN in_dt ELSE @,
                        !.session_start = IF in_dt # None THEN in_dt ELSE @,
                        !.erp_out_time = IF out_dt # None THEN out_dt ELSE @,
                        !.erp_break_seconds =
                            IF p.break_seconds # None THEN Max(0, p.break_seconds) ELSE @,
                        !.erp_active_seconds =
                            IF p.active_seconds # None THEN Max(0, p.active_seconds) ELSE @,
                        !.erp_state_hint = hint,
                        !.erp_break_open = IF p.on_break = "None" THEN @ ELSE p.on_break = "True"]
    IN  IF apply_changed(p)
        THEN [s1 EXCEPT !.state = IF hint # "None" /\ @ # LOGGED_OUT THEN hint ELSE @,
                        !.last_update = t]
        ELSE s1

apply_server_totals(s, t, p) ==
    LET in_dt == parse_iso_datetime(p.in_time)
        out_dt == parse_iso_datetime(p.out_time)
        s1 == IF in_dt # None
              THEN [s EXCEPT !.erp_in_time = in_dt,
                             !.session_start =
                                 IF s.session_start = None \/ in_dt < s.session_start
                                 THEN in_dt ELSE @]
              ELSE s
        s2 == IF out_dt # None THEN [s1 EXCEPT !.erp_out_time = out_dt] ELSE s1
        s3 == IF p.break_seconds # None
              THEN [s2 EXCEPT !.erp_break_seconds = Max(0, p.break_seconds)] ELSE s2
        s4 == IF p.active_seconds # None
              THEN [s3 EXCEPT !.erp_active_seconds = Max(0, p.active_seconds)] ELSE s3
        s5 == IF p.on_break # "None"
              THEN [s4 EXCEPT !.erp_state_hint = IF p.on_break = "True" THEN ON_BREAK ELSE CLOCKED_IN,
                              !.erp_break_open = (p.on_break = "True")]
              ELSE s4
    IN  IF apply_changed(p)
        THEN [s5 EXCEPT !.state = IF s5.erp_state_hint # "None" /\ s5.state # LOGGED_OUT
                                  THEN s5.erp_state_hint ELSE @,
                        !.last_update = t]
        ELSE s5

\* ------------------------------------------------------------------ power monitor

tick_elapsed(s, t) == t - s.last_tick

tick_gap(s, t) == tick_elapsed(s, t) - monitor_interval_seconds

tick_is_sleep_gap(s, t) == tick_gap(s, t) > sleep_gap_seconds

sleep_duration_seconds(s, t) == Max(0, tick_elapsed(s, t) - monitor_interval_seconds)

tick_starts_break(s) ==
    /\ s.state \in {CLOCKED_IN, ON_BREAK}
    /\ ~s.sleep_gap_prehandled
    /\ s.state = CLOCKED_IN
    /\ s.break_start = None

tick_calls(s, t) ==
    IF tick_is_sleep_gap(s, t) /\ tick_starts_break(s) THEN <<"start_break">> ELSE <<>>

\* a sleep break that starts when the monitor wakes, not when the sleep began
tick_begin_break_at_wake(s, t) ==
    [accumulate_until_now(s, t) EXCEPT
        !.state = ON_BREAK,
        !.break_start = t,
        !.sleep_break_active = TRUE]

\* lines 846-853: the break the monitor starts for the sleep period
tick_begin_break(s, t) ==
    [accumulate_until_now(s, t) EXCEPT
        !.state = ON_BREAK,
        !.break_start = t - sleep_duration_seconds(s, t),
        !.sleep_break_active = TRUE]

\* lines 864-870, 877: what follows the remote call, with the loop body's
\* locals now and sleep_duration_seconds
tick_finish(s, t, dur) ==
    [s EXCEPT !.break_seconds = @ + dur,
              !.sleep_gap_prehandled = FALSE,
              !.last_update = t,
              !.last_tick = t]

\* lines 867-877 where "self.break_seconds += sleep_duration_seconds" has
\* loaded break_seconds before the other threads ran: the value stored is the
\* sum made of the loaded one
tick_store(s, t, dur, loaded) ==
    [s EXCEPT !.break_seconds = loaded + dur,
              !.sleep_gap_prehandled = FALSE,
              !.last_update = t,
              !.last_tick = t]

\* a loop body that flushes the accumulator on the ticks that see no sleep gap
power_monitor_tick_flushing(s, t) ==
    IF tick_is_sleep_gap(s, t)
    THEN IF s.state \in {CLOCKED_IN, ON_BREAK}
         THEN tick_finish(IF tick_starts_break(s) THEN tick_begin_break(s, t) ELSE s,
                          t, sleep_duration_seconds(s, t))
         ELSE [s EXCEPT !.last_update = t, !.last_tick = t]
    ELSE [accumulate_until_now(s, t) EXCEPT !.last_tick = t]

\* one iteration of the loop body after time.sleep returns
power_monitor_tick(s, t) ==
    IF tick_is_sleep_gap(s, t)
    THEN IF s.state \in {CLOCKED_IN, ON_BREAK}
         THEN tick_finish(IF tick_starts_break(s) THEN tick_begin_break(s, t) ELSE s,
                          t, sleep_duration_seconds(s, t))
         ELSE [s EXCEPT !.last_update = t, !.last_tick = t]
    ELSE [s EXCEPT !.last_tick = t]

\* _record_sleep_event
record_sleep_event(dur, io) == IF io = "ok" THEN <<dur>> ELSE <<>>

\* ------------------------------------------------------------------ the server

\* the break row the server holds after the remote call of one operation; a
\* punch-in opens a new attendance row, which has no break
server_after(open, calls, r) ==
    IF calls = <<>> THEN open
    ELSE IF calls[1] = "punch_in" THEN FALSE
    ELSE IF r # "ok" THEN open
    ELSE IF calls[1] = "start_break" THEN TRUE
    ELSE IF calls[1] = "end_break" THEN FALSE
    ELSE open

\* the answers the remote API can give to the calls of one operation
Answers(calls) == IF calls = <<>> THEN {"ok"} ELSE ApiResults

dup_after(open, calls) ==
    open /\ calls # <<>> /\ calls[1] = "start_break"

\* the periodic fetch reports the break row the server holds, whoever opened it
server_reported(open, p) ==
    IF p.on_break = "None" THEN open ELSE p.on_break = "True"

\* the codec before it is used
CodecIdle == [op |-> "idle", seconds |-> None, text |-> NoneText, parsed |-> None]

\* where the machine stands with its last suspend, and the break_seconds and
\* last_update the session had when it was suspended
PowerState(kind) == [kind |-> kind, break_seconds |-> None, last_update |-> None]

\* no suspend is waiting for the monitor thread to see it
Awake == PowerState("awake")

\* the machine was suspended after on_sleep had started a break for it
SleepHandled == PowerState("sleep_handled")

\* the machine was suspended and on_sleep had started no break
SleepUnhandled == PowerState("sleep_unhandled")

\* on_wake has ended the break on_sleep had started
WakeHandled == PowerState("wake_handled")

\* the machine was suspended while the session was on break; the monitor
\* thread has not run since
SleptOnBreak(s) ==
    [kind |-> "slept_on_break", break_seconds |-> s.break_seconds, last_update |-> s.last_update]

\* the calls that flush the accumulator leave the suspend for the monitor to see
power_after(op, p) ==
    IF /\ p.kind = "slept_on_break"
       /\ op \in {"update_activity", "get_daily_summary", "end_break", "end_break_force"}
    THEN p
    ELSE Awake

\* no fetch was handed over by the last step
NoFetch == Payload(None, None, None, "None", None)

\* the monitor thread between two iterations of its loop
MonitorSleeping ==
    [pc |-> "sleep", now |-> None, sleep_duration_seconds |-> None, loaded |-> None]

\* ------------------------------------------------------------------ actions

\* the state after construction, but for the codec
Constructed ==
    /\ session = NewSession
    /\ now = 0
    /\ skews = 0
    /\ monitor_alive = FALSE
    /\ wrote = <<>>
    /\ server_break_open = FALSE
    /\ lastOp = "init"
    /\ ret = "None"
    /\ sent = <<>>
    /\ worked = 0
    /\ dup_break_start = FALSE
    /\ answer = "None"
    /\ monitor = MonitorSleeping
    /\ fetch = NoFetch
    /\ power = Awake
    /\ activity = NoActivity
    /\ workers = NoWorkers
    /\ locked = NotLocked
    /\ detector = NewDetector

Init == Constructed /\ codec = CodecIdle

\* what one operation leaves behind: the session, what it wrote to local storage,
\* the remote calls it made (the first of them answered r) and what it returned
Effects(op, s, w, calls, r, returned) ==
    /\ session' = s
    /\ wrote' = w
    /\ sent' = calls
    /\ server_break_open' = server_after(server_break_open, calls, r)
    /\ dup_break_start' = dup_after(server_break_open, calls)
    /\ answer' = IF calls = <<>> THEN "None" ELSE r
    /\ lastOp' = op
    /\ ret' = returned
    /\ fetch' = NoFetch
    /\ power' = power_after(op, power)
    /\ UNCHANGED << now, skews, monitor, codec >>

\* an operation that touches neither the activity window nor the threads
Ran(op, s, w, calls, r, returned) ==
    /\ Effects(op, s, w, calls, r, returned)
    /\ UNCHANGED aside

\* time.sleep(monitor_interval_seconds) of the monitor thread has returned
tick_due ==
    /\ monitor_alive
    /\ monitor.pc = "sleep"
    /\ tick_elapsed(session, now) >= monitor_interval_seconds

\* time passes: awake time, unless the monitor thread is due to run, or a
\* suspend, during which no thread runs
AdvanceWithin(delays, maxt) ==
    \E d \in delays :
        /\ now + d <= maxt
        /\ tick_due => d = suspend_seconds
        /\ now' = now + d
        /\ worked' = IF session.state \in {CLOCKED_IN, ON_BREAK} THEN worked + d ELSE worked
        /\ lastOp' = "advance"
        /\ ret' = "None"
        /\ sent' = <<>>
        /\ wrote' = <<>>
        /\ dup_break_start' = FALSE
        /\ answer' = "None"
        /\ fetch' = NoFetch
        /\ UNCHANGED aside
        /\ power' = Awake
        /\ UNCHANGED << session, skews, monitor_alive, server_break_open, monitor, codec >>

\* the wall clock is set backward
ClockSkew ==
    /\ skews < MaxSkews
    /\ now >= awake_seconds
    /\ now' = now - awake_seconds
    /\ skews' = skews + 1
    /\ lastOp' = "skew"
    /\ ret' = "None"
    /\ sent' = <<>>
    /\ wrote' = <<>>
    /\ dup_break_start' = FALSE
    /\ answer' = "None"
    /\ fetch' = NoFetch
    /\ UNCHANGED aside
    /\ power' = Awake
    /\ UNCHANGED << session, monitor_alive, server_break_open, worked, monitor, codec >>

ClockInOp(ios) ==
    \E r \in ApiResults, io \in ios, stored \in BOOLEAN :
        /\ Ran("clock_in", clock_in(session, now), clock_in_wrote(stored, io),
               <<"punch_in">>, r, "None")
        /\ monitor_alive' = TRUE
        /\ worked' = 0

\* the GUI calls clock_in_local after its own punch-in was accepted by the server
ClockInLocal ==
    /\ session' = clock_in_local(session, now)
    /\ server_break_open' = FALSE
    /\ monitor_alive' = TRUE
    /\ worked' = 0
    /\ lastOp' = "clock_in_local"
    /\ ret' = "None"
    /\ sent' = <<>>
    /\ wrote' = <<>>
    /\ dup_break_start' = FALSE
    /\ answer' = "None"
    /\ fetch' = NoFetch
    /\ UNCHANGED aside
    /\ power' = Awake
    /\ UNCHANGED << now, skews, monitor, codec >>

ClockOutOp(ios) ==
    \E r \in ApiResults, io \in ios :
        /\ Ran("clock_out", clock_out(session, now), clock_out_wrote(io),
               clock_out_calls(io), r, IF r = "ok" THEN "True" ELSE "False")
        /\ UNCHANGED << monitor_alive, worked >>

GetDailySummary ==
    /\ Ran("get_daily_summary", get_daily_summary_flush(session, now), <<>>, <<>>, "ok",
           daily_summary(get_daily_summary_flush(session, now), now))
    /\ UNCHANGED << monitor_alive, worked >>

StartBreak ==
    \E r \in Answers(start_break_calls(session)) :
        /\ Ran("start_break", start_break(session, now, r), <<>>,
               start_break_calls(session), r,
               IF start_break_refused(session) THEN "False" ELSE "True")
        /\ UNCHANGED << monitor_alive, worked >>

EndBreak ==
    \E force \in BOOLEAN :
      \E r \in Answers(end_break_calls(session, force)) :
        /\ Ran(IF force THEN "end_break_force" ELSE "end_break",
               end_break(session, now, force, r), <<>>,
               end_break_calls(session, force), r,
               IF end_break_refused(session, force) THEN "False" ELSE "True")
        /\ UNCHANGED << monitor_alive, worked >>

UpdateActivity ==
    \E sample \in ActivitySamples :
        /\ Ran("update_activity", update_activity(session, now, sample[1], sample[2]),
               <<>>, <<>>, "ok", "None")
        /\ UNCHANGED << monitor_alive, worked >>

ApplyServerTotalsOp(payloads) ==
    \E p \in payloads :
        /\ session' = apply_server_totals(session, now, p)
        /\ server_break_open' = server_reported(server_break_open, p)
        /\ lastOp' = "apply_server_totals"
        /\ ret' = "None"
        /\ sent' = <<>>
        /\ wrote' = <<>>
        /\ dup_break_start' = FALSE
        /\ answer' = "None"
        /\ fetch' = p
        /\ UNCHANGED aside
        /\ power' = Awake
        /\ UNCHANGED << now, skews, monitor, monitor_alive, worked, codec >>

\* the monitor thread wakes from time.sleep(monitor_interval_seconds), runs the
\* loop body and tests _bg_running again
TickOp(ios) ==
    \E r \in Answers(tick_calls(session, now)), io \in ios :
        /\ monitor_alive
        /\ monitor.pc = "sleep"
        /\ skews > 0 \/ tick_due
        /\ IF tick_is_sleep_gap(session, now)
           THEN Ran("tick_gap", power_monitor_tick(session, now),
                    record_sleep_event(sleep_duration_seconds(session, now), io),
                    tick_calls(session, now), r, "None")
           ELSE Ran("tick", power_monitor_tick(session, now), <<>>, <<>>, r, "None")
        /\ monitor_alive' = session.bg_running
        /\ UNCHANGED worked

Advance == AdvanceWithin(Delays, MaxTime)

ApplyServerTotals == ApplyServerTotalsOp(ServerPayloads)

\* local storage works
ClockIn == ClockInOp({"ok"})

ClockOut == ClockOutOp({"ok"})

Tick == TickOp({"ok"})

Next ==
    \/ Advance
    \/ ClockIn
    \/ ClockInLocal
    \/ ClockOut
    \/ GetDailySummary
    \/ StartBreak
    \/ EndBreak
    \/ UpdateActivity
    \/ ApplyServerTotals
    \/ Tick

Spec == Init /\ [][Next]_vars

\* the same, with a wall clock that may be set backward: a suspend, after
\* which the clock may be set backward
AdvanceSkew == AdvanceWithin({suspend_seconds}, MaxTimeSkew)

NextSkew ==
    \/ AdvanceSkew
    \/ ClockSkew
    \/ ClockIn
    \/ ClockInLocal
    \/ ClockOut
    \/ GetDailySummary
    \/ StartBreak
    \/ EndBreak
    \/ UpdateActivity
    \/ ApplyServerTotals
    \/ Tick

SpecSkew == Init /\ [][NextSkew]_vars

\* the same, with the monitor thread's blocking remote call (line 853) as a
\* step of its own: the other threads run while the call is in flight

\* lines 829-853: the loop body up to the remote call
TickBegin ==
    /\ tick_due
    /\ tick_calls(session, now) # <<>>
    /\ session' = tick_begin_break(session, now)
    /\ monitor' = [pc |-> "call", now |-> now,
                   sleep_duration_seconds |-> sleep_duration_seconds(session, now),
                   loaded |-> None]
    /\ sent' = tick_calls(session, now)
    /\ dup_break_start' = dup_after(server_break_open, tick_calls(session, now))
    /\ lastOp' = "tick_begin"
    /\ ret' = "None"
    /\ answer' = "None"
    /\ wrote' = <<>>
    /\ fetch' = NoFetch
    /\ UNCHANGED aside
    /\ power' = Awake
    /\ UNCHANGED << now, skews, monitor_alive, server_break_open, worked, codec >>

\* lines 854-877 and the loop test: the call has returned
TickEnd ==
    \E r \in ApiResults :
        /\ monitor.pc = "call"
        /\ session' = tick_finish(session, monitor.now, monitor.sleep_duration_seconds)
        /\ monitor' = MonitorSleeping
        /\ monitor_alive' = session.bg_running
        /\ server_break_open' = server_after(server_break_open, <<"start_break">>, r)
        /\ answer' = r
        /\ wrote' = record_sleep_event(monitor.sleep_duration_seconds, "ok")
        /\ sent' = <<>>
        /\ dup_break_start' = FALSE
        /\ lastOp' = "tick_end"
        /\ ret' = "None"
        /\ fetch' = NoFetch
        /\ UNCHANGED aside
        /\ power' = Awake
        /\ UNCHANGED << now, skews, worked, codec >>

\* an iteration of the loop that makes no remote call
TickQuiet == tick_calls(session, now) = <<>> /\ Tick

Suspend == AdvanceWithin({suspend_seconds}, MaxTimeConc)

\* awake time that passes while the monitor's remote call is in flight
CallLatency == monitor.pc = "call" /\ AdvanceWithin({awake_seconds}, MaxTimeConc)

NextConc ==
    \/ Suspend
    \/ CallLatency
    \/ ClockIn
    \/ ClockOut
    \/ GetDailySummary
    \/ StartBreak
    \/ EndBreak
    \/ UpdateActivity
    \/ ApplyServerTotalsOp({ p \in ServerPayloads : p.in_time # None \/ p.on_break = "False" })
    \/ TickBegin
    \/ TickQuiet
    \/ TickEnd

SpecConc == Init /\ [][NextConc]_vars

NextSummary ==
    \/ Advance
    \/ ClockIn
    \/ ClockOut
    \/ StartBreak
    \/ EndBreak
    \/ ApplyServerTotalsOp(SummaryPayloads)
    \/ GetDailySummary

SpecSummary == Init /\ [][NextSummary]_vars

NextFetch ==
    \/ Advance
    \/ ClockIn
    \/ ClockOut
    \/ StartBreak
    \/ EndBreak
    \/ ApplyServerTotalsOp(FetchPayloads)

SpecFetch == Init /\ [][NextFetch]_vars

NextIo ==
    \/ Advance
    \/ ClockInOp(IoResults)
    \/ ClockOutOp(IoResults)
    \/ StartBreak
    \/ EndBreak
    \/ TickOp(IoResults)

SpecIo == Init /\ [][NextIo]_vars

\* the system announces a suspend: on_sleep runs, then the machine is suspended
\* and no thread runs until it resumes
OnSleep ==
    \E r \in Answers(on_sleep_calls(session)) :
        /\ now + suspend_seconds <= MaxTime
        /\ monitor.pc = "sleep"
        /\ session' = on_sleep(session, now, r)
        /\ now' = now + suspend_seconds
        /\ worked' = IF session.state \in {CLOCKED_IN, ON_BREAK}
                     THEN worked + suspend_seconds ELSE worked
        /\ UNCHANGED aside
        /\ power' = IF session.state = CLOCKED_IN /\ ~start_break_refused(session)
                    THEN SleepHandled ELSE SleepUnhandled
        /\ sent' = on_sleep_calls(session)
        /\ server_break_open' = server_after(server_break_open, on_sleep_calls(session), r)
        /\ dup_break_start' = dup_after(server_break_open, on_sleep_calls(session))
        /\ answer' = IF on_sleep_calls(session) = <<>> THEN "None" ELSE r
        /\ lastOp' = "on_sleep"
        /\ ret' = "None"
        /\ wrote' = <<>>
        /\ fetch' = NoFetch
        /\ UNCHANGED << skews, monitor_alive, monitor, codec >>

\* the system announces the resume: on_wake runs before the monitor thread does
OnWake ==
    \E r \in Answers(on_wake_calls(session)) :
        /\ power \in {SleepHandled, SleepUnhandled}
        /\ session' = on_wake(session, now, r)
        /\ UNCHANGED aside
        /\ power' = IF power = SleepHandled /\ has_pending_break(session)
                    THEN WakeHandled ELSE Awake
        /\ sent' = on_wake_calls(session)
        /\ server_break_open' = server_after(server_break_open, on_wake_calls(session), r)
        /\ dup_break_start' = FALSE
        /\ answer' = IF on_wake_calls(session) = <<>> THEN "None" ELSE r
        /\ lastOp' = "on_wake"
        /\ ret' = "None"
        /\ wrote' = <<>>
        /\ fetch' = NoFetch
        /\ UNCHANGED << now, skews, monitor_alive, monitor, worked, codec >>

\* the session with the system's sleep and wake notices
NextPower ==
    \/ Advance
    \/ ClockIn
    \/ ClockOut
    \/ StartBreak
    \/ EndBreak
    \/ GetDailySummary
    \/ OnSleep
    \/ OnWake
    \/ Tick

SpecPower == Init /\ [][NextPower]_vars

\* the machine is suspended while the session is on break
SuspendOnBreak ==
    /\ session.state = ON_BREAK
    /\ monitor_alive
    /\ monitor.pc = "sleep"
    /\ now + suspend_seconds <= MaxTime
    /\ now' = now + suspend_seconds
    /\ worked' = worked + suspend_seconds
    /\ UNCHANGED aside
    /\ power' = SleptOnBreak(session)
    /\ lastOp' = "suspend"
    /\ ret' = "None"
    /\ sent' = <<>>
    /\ wrote' = <<>>
    /\ dup_break_start' = FALSE
    /\ answer' = "None"
    /\ fetch' = NoFetch
    /\ UNCHANGED << session, skews, monitor_alive, server_break_open, monitor, codec >>

\* awake time
Awaken == AdvanceWithin({awake_seconds}, MaxTime)

\* the accumulator's callers and the monitor thread around a suspend on break
NextGap ==
    \/ Awaken
    \/ SuspendOnBreak
    \/ ClockIn
    \/ ClockOut
    \/ StartBreak
    \/ EndBreak
    \/ UpdateActivity
    \/ GetDailySummary
    \/ Tick

SpecGap == Init /\ [][NextGap]_vars

\* the monitor thread's "self.break_seconds += sleep_duration_seconds" is a
\* load, an addition and a store; no lock is held, and the interpreter may
\* run another thread between the load and the store

\* lines 829-867: the loop body of a tick that sees a sleep gap, up to the
\* load of break_seconds
TickLoad ==
    \E r \in Answers(tick_calls(session, now)) :
        /\ tick_due
        /\ tick_is_sleep_gap(session, now)
        /\ session.state \in {CLOCKED_IN, ON_BREAK}
        /\ session' = IF tick_starts_break(session)
                      THEN tick_begin_break(session, now) ELSE session
        /\ monitor' = [pc |-> "add", now |-> now,
                       sleep_duration_seconds |-> sleep_duration_seconds(session, now),
                       loaded |-> session'.break_seconds]
        /\ sent' = tick_calls(session, now)
        /\ server_break_open' = server_after(server_break_open, tick_calls(session, now), r)
        /\ dup_break_start' = dup_after(server_break_open, tick_calls(session, now))
        /\ answer' = IF tick_calls(session, now) = <<>> THEN "None" ELSE r
        /\ lastOp' = "tick_load"
        /\ ret' = "None"
        /\ wrote' = <<>>
        /\ fetch' = NoFetch
        /\ UNCHANGED aside
        /\ power' = Awake
        /\ UNCHANGED << now, skews, monitor_alive, worked, codec >>

\* lines 867-877 and the loop test: the store, and the rest of the body
TickStore ==
    /\ monitor.pc = "add"
    /\ session' = tick_store(session, monitor.now, monitor.sleep_duration_seconds,
                             monitor.loaded)
    /\ monitor' = MonitorSleeping
    /\ monitor_alive' = session.bg_running
    /\ wrote' = record_sleep_event(monitor.sleep_duration_seconds, "ok")
    /\ sent' = <<>>
    /\ dup_break_start' = FALSE
    /\ answer' = "None"
    /\ lastOp' = "tick_store"
    /\ ret' = "None"
    /\ fetch' = NoFetch
    /\ UNCHANGED aside
    /\ power' = Awake
    /\ UNCHANGED << now, skews, server_break_open, worked, codec >>

\* the iterations that do not reach line 867
TickElse ==
    /\ ~tick_is_sleep_gap(session, now) \/ session.state \notin {CLOCKED_IN, ON_BREAK}
    /\ Tick

NextRace ==
    \/ Advance
    \/ ClockIn
    \/ ClockOut
    \/ StartBreak
    \/ EndBreak
    \/ UpdateActivity
    \/ GetDailySummary
    \/ TickLoad
    \/ TickStore
    \/ TickElse

SpecRace == Init /\ [][NextRace]_vars

\* update_activity with its window and score
UpdateActivityScored ==
    \E sample \in { sample \in ActivitySamples : sample[2] < IDLE_TIMEOUT_SECONDS } :
        /\ LET samples == record_activity(activity, sample[1]).samples
           IN  Len(samples) - sum(samples) <= MaxIdleSamples
        /\ session' = update_activity(session, now, sample[1], sample[2])
        /\ activity' = record_activity(activity, sample[1])
        /\ lastOp' = "update_activity"
        /\ ret' = "None"
        /\ sent' = <<>>
        /\ wrote' = <<>>
        /\ dup_break_start' = FALSE
        /\ answer' = "None"
        /\ fetch' = NoFetch
        /\ power' = Awake
        /\ UNCHANGED << now, skews, monitor_alive, server_break_open, worked, monitor, codec,
                    workers, locked, detector >>

NextActivity ==
    \/ AdvanceWithin({awake_seconds}, MaxTimeActivity)
    \/ ClockInLocal
    \/ UpdateActivityScored

SpecActivity == Init /\ [][NextActivity]_vars

\* the workstation is locked
OnLock ==
    \E r \in Answers(on_lock_calls(session)) :
        /\ Effects("on_lock", on_lock(session, now, r), <<>>, on_lock_calls(session), r, "None")
        /\ locked' = IF session.state = CLOCKED_IN /\ ~has_pending_break(session)
                     THEN [since |-> now, break_seconds |-> session'.break_seconds]
                     ELSE locked
        /\ UNCHANGED << monitor_alive, worked, activity, workers, detector >>

\* the workstation is unlocked
OnUnlock ==
    \E r \in Answers(on_unlock_calls(session)) :
        /\ Effects("on_unlock", on_unlock(session, now, r), <<>>, on_unlock_calls(session),
                   r, "None")
        /\ locked' = NotLocked
        /\ UNCHANGED << monitor_alive, worked, activity, workers, detector >>

\* a clock-in, which wipes the break on_lock began along with the counters
ClockInLock ==
    \E r \in ApiResults :
        /\ Effects("clock_in", clock_in(session, now), <<>>, <<"punch_in">>, r, "None")
        /\ locked' = NotLocked
        /\ monitor_alive' = TRUE
        /\ worked' = 0
        /\ UNCHANGED << activity, workers, detector >>

\* the session with the lock and unlock notices; no suspend and no server
\* totals arrive in between
NextLock ==
    \/ AdvanceWithin({awake_seconds}, MaxTimeLock)
    \/ ClockInLock
    \/ ClockOut
    \/ StartBreak
    \/ EndBreak
    \/ GetDailySummary
    \/ UpdateActivity
    \/ OnLock
    \/ OnUnlock
    \/ Tick

SpecLock == Init /\ [][NextLock]_vars

\* a step of a background thread that leaves the session alone
Looped(op) ==
    /\ lastOp' = op
    /\ ret' = "None"
    /\ sent' = <<>>
    /\ wrote' = <<>>
    /\ dup_break_start' = FALSE
    /\ answer' = "None"
    /\ fetch' = NoFetch
    /\ power' = Awake
    /\ UNCHANGED << session, now, skews, monitor_alive, server_break_open, worked,
                    monitor, codec, activity, locked, detector >>

\* clock_in with the threads it starts
ClockInWorkers ==
    \E r \in ApiResults :
        /\ session.bg_running
           \/ \A loop \in DOMAIN workers : workers[loop] < MaxWorkers
        /\ Effects("clock_in", clock_in(session, now), <<>>, <<"punch_in">>, r, "None")
        /\ workers' = started_workers(session, workers)
        /\ monitor_alive' = TRUE
        /\ worked' = 0
        /\ UNCHANGED << activity, locked, detector >>

\* clock_out: _stop_background_tasks clears the flag and joins no thread
ClockOutWorkers ==
    \E r \in ApiResults :
        /\ Effects("clock_out", clock_out(session, now), clock_out_wrote("ok"),
                   clock_out_calls("ok"), r, IF r = "ok" THEN "True" ELSE "False")
        /\ UNCHANGED << monitor_alive, worked, activity, workers, locked, detector >>

\* one _shot_loop thread tests the flag at line 525; its time.sleep and its
\* uploads have returned
ShotLoop ==
    /\ workers.shot > 0
    /\ Looped("shot_loop")
    /\ workers' = [workers EXCEPT !.shot = after_test(session, @)]

\* one _window_loop thread tests the flag at line 758
WindowLoop ==
    /\ workers.window > 0
    /\ Looped("window_loop")
    /\ workers' = [workers EXCEPT !.window = after_test(session, @)]

\* one _power_monitor_loop thread returns from time.sleep, runs the loop body
\* and tests the flag at line 827
MonitorLoop ==
    \E r \in Answers(tick_calls(session, now)) :
        /\ workers.monitor > 0
        /\ IF tick_is_sleep_gap(session, now)
           THEN Effects("tick_gap", power_monitor_tick(session, now),
                        record_sleep_event(sleep_duration_seconds(session, now), "ok"),
                        tick_calls(session, now), r, "None")
           ELSE Effects("tick", power_monitor_tick(session, now), <<>>, <<>>, r, "None")
        /\ workers' = [workers EXCEPT !.monitor = after_test(session, @)]
        /\ monitor_alive' = (workers'.monitor > 0)
        /\ UNCHANGED << worked, activity, locked, detector >>

NextWorkers ==
    \/ AdvanceWithin(Delays, MaxTimeWorkers)
    \/ ClockInWorkers
    \/ ClockOutWorkers
    \/ ShotLoop
    \/ WindowLoop
    \/ MonitorLoop

SpecWorkers == Init /\ [][NextWorkers]_vars

\* every thread is scheduled again and again, and its sleeps and remote calls
\* return
SpecCancel ==
    /\ Init
    /\ [][NextWorkers]_vars
    /\ WF_vars(ShotLoop)
    /\ WF_vars(WindowLoop)
    /\ WF_vars(MonitorLoop)

\* a step of the idle detector or of its tracker
Detected(d) ==
    /\ detector' = d
    /\ UNCHANGED << session, now, skews, monitor_alive, wrote, server_break_open,
                    lastOp, ret, sent, worked, dup_break_start, answer, monitor, fetch,
                    power, codec, activity, workers, locked >>

\* time passes
DetectorWait ==
    \E d \in {idle_timeout \div 2 - 1, idle_timeout \div 2, idle_timeout \div 2 + 1} :
        /\ detector.time + d <= MaxTimeDetector
        /\ Detected([detector EXCEPT !.time = @ + d])

\* the user presses a key or moves the mouse
DetectorActivity == Detected(on_activity(detector))

\* the thread of _monitor makes one pass of its loop
DetectorMonitor == Detected(monitor_pass(detector))

NextDetector ==
    \/ DetectorWait
    \/ DetectorActivity
    \/ DetectorMonitor

SpecDetector == Init /\ [][NextDetector]_vars

\* the duration codec alone: a number of seconds is formatted and the text
\* parsed back
InitCodec ==
    /\ Constructed
    /\ \E n \in 0..MaxCodecSeconds :
           codec = [CodecIdle EXCEPT !.op = "input", !.seconds = n]

Format ==
    /\ codec.op = "input"
    /\ codec.seconds # None
    /\ codec' = [codec EXCEPT !.op = "format", !.text = format_hms(codec.seconds)]
    /\ UNCHANGED << session, now, skews, monitor_alive, wrote, server_break_open,
                    lastOp, ret, sent, worked, dup_break_start, answer, monitor, fetch, power, aside >>

Parse ==
    /\ codec.op \in {"format", "text"}
    /\ codec' = [codec EXCEPT !.op = "parse", !.parsed = parse_hms(codec.text)]
    /\ UNCHANGED << session, now, skews, monitor_alive, wrote, server_break_open,
                    lastOp, ret, sent, worked, dup_break_start, answer, monitor, fetch, power, aside >>

NextCodec ==
    \/ Format
    \/ Parse

SpecCodec == InitCodec /\ [][NextCodec]_vars

\* the parser alone: it is handed None or any text of CodecChars
InitParse ==
    /\ Constructed
    /\ codec \in { [CodecIdle EXCEPT !.op = "text", !.text = t] : t \in { <<>>, NoneText } }

\* one more character of the text
Type ==
    \E c \in CodecChars :
        /\ codec.op = "text"
        /\ codec.text # NoneText
        /\ Len(codec.text) < MaxTextLen
        /\ codec' = [codec EXCEPT !.text = Append(@, c)]
        /\ UNCHANGED << session, now, skews, monitor_alive, wrote, server_break_open,
                        lastOp, ret, sent, worked, dup_break_start, answer, monitor, fetch, power, aside >>

NextParse ==
    \/ Type
    \/ Parse

SpecParse == InitParse /\ [][NextParse]_vars

\* ------------------------------------------------------------------ properties

counters(s) == << s.active_seconds, s.break_seconds, s.idle_seconds >>

credited(s) == s.active_seconds + s.break_seconds + s.idle_seconds

\* C1: accumulation conservation.  Whenever the session has just been flushed
\* (last_update = now) in a clocked-in state, active_seconds + break_seconds +
\* idle_seconds equals the wall-clock time that elapsed in CLOCKED_IN or
\* ON_BREAK since clock-in: no second is credited twice and none is lost.
AccumulationConservation ==
    (session.state # LOGGED_OUT /\ session.last_update = now)
        => credited(session) = worked

\* C2: break dedup.  A start_break() that is accepted (state CLOCKED_IN, no
\* local break open) sends the remote break-start call if and only if
\* erp_break_open was false; a set flag stays set, and a successful call sets it.
BreakDedup ==
    [][ (lastOp' = "start_break" /\ ret' = "True")
            => /\ (sent' = <<"start_break">>) <=> ~session.erp_break_open
               /\ sent' = <<>> <=> session.erp_break_open
               /\ session.erp_break_open => session'.erp_break_open
               /\ (sent' = <<"start_break">> /\ answer' = "ok") => session'.erp_break_open
      ]_vars

\* C2: start_break() was accepted and sent nothing, the flag being set
BreakDedupWitness ==
    /\ lastOp = "start_break"
    /\ ret = "True"
    /\ sent = <<>>
    /\ session.state = ON_BREAK
    /\ session.erp_break_open

\* C3: no duplicate remote break-start.  No operation, the monitor's tick
\* included, sends a remote break-start call while the server holds a break
\* that an earlier call opened and no successful break-end has closed.
NoDuplicateBreakStart == ~dup_break_start

\* C4: suspend-gap correctness.  A tick that sees a sleep gap g while the
\* session is CLOCKED_IN, not idle, with no break open records exactly one
\* sleep event of duration g, adds g to break_seconds, and adds to
\* active_seconds at most the time between last_update and the start of the gap.
SuspendGapCorrectness ==
    [][ ( /\ lastOp' = "tick_gap"
          /\ session.state = CLOCKED_IN
          /\ ~session.is_idle
          /\ session.break_start = None
          /\ session.last_update # None )
            => LET g == sleep_duration_seconds(session, now)
               IN  /\ wrote' = <<g>>
                   /\ session'.break_seconds = session.break_seconds + g
                   /\ session'.active_seconds
                          <= session.active_seconds + Max(0, (now - g) - session.last_update)
      ]_vars

\* C5: between operations, break_start is set if and only if state is ON_BREAK.
BreakStartIffOnBreak ==
    (session.break_start # None) <=> (session.state = ON_BREAK)

\* C6: the session leaves LOGGED_OUT only by clock_in or clock_in_local.
LeavesLoggedOutOnlyByClockIn ==
    [][ (session.state = LOGGED_OUT /\ session'.state # LOGGED_OUT)
            => lastOp' \in {"clock_in", "clock_in_local"}
      ]_vars

\* C7: last_update is monotonic.  No step other than a clock-in makes
\* last_update smaller, whatever the interleaving of the accumulator,
\* apply_server_totals and the monitor's tick.
LastUpdateMonotonic ==
    [][ ( /\ lastOp' \notin {"clock_in", "clock_in_local"}
          /\ session.last_update # None
          /\ session'.last_update # None )
            => session'.last_update >= session.last_update
      ]_vars

\* C8: while state is LOGGED_OUT before and after a step, active_seconds,
\* break_seconds and idle_seconds do not change.
CountersFrozenWhileLoggedOut ==
    [][ (session.state = LOGGED_OUT /\ session'.state = LOGGED_OUT)
            => counters(session') = counters(session)
      ]_vars

\* C9: active_seconds, break_seconds and idle_seconds are never negative,
\* also when the wall clock is set backward between calls and across ticks.
CountersNonNegative ==
    /\ session.active_seconds >= 0
    /\ session.break_seconds >= 0
    /\ session.idle_seconds >= 0

\* C9: an operation flushed after the clock was set backward behind last_update,
\* with time already credited
CountersNonNegativeWitness ==
    /\ skews > 0
    /\ lastOp \in {"update_activity", "get_daily_summary", "tick"}
    /\ session.state \in {CLOCKED_IN, ON_BREAK}
    /\ session.last_update > now
    /\ credited(session) > 0

\* C10: idempotence of accumulate.  A second accumulate at the same instant
\* changes no field of the session: in every state two calls at `now` give what
\* one call gives, and a flush that has just run (get_daily_summary is the bare
\* accumulate) is a fixed point.
AccumulateIdempotent ==
    /\ accumulate_until_now(accumulate_until_now(session, now), now)
           = accumulate_until_now(session, now)
    /\ lastOp = "get_daily_summary" => accumulate_until_now(session, now) = session

\* C10: the first of the two calls credited elapsed time
AccumulateIdempotentWitness ==
    /\ lastOp = "get_daily_summary"
    /\ session.state = CLOCKED_IN
    /\ session.last_update = now
    /\ session.active_seconds > 0

\* C13: codec round trip.  For every s in 0 .. 999999, parsing the text that
\* _format_hms made of s gives s.
CodecRoundTrip ==
    (codec.op = "parse" /\ codec.seconds # None) => codec.parsed = codec.seconds

\* C13: the largest number of seconds, whose hours take three digits, went
\* through format and parse
CodecRoundTripWitness ==
    /\ codec.op = "parse"
    /\ codec.seconds = 999999
    /\ codec.text = << "2", "7", "7", ":", "4", "6", ":", "3", "9" >>
    /\ codec.parsed = 999999

\* C14: the parser is total.  A text of one, two or three numeric components
\* parses to its seconds, the missing leading components counting as zero
\* ("5:30" is 330); None, the empty text, a text of more than three components
\* and a text with a component that is no number parse to 0.
ParseTotal ==
    (codec.op = "parse" /\ codec.seconds = None) =>
        LET text == codec.text
            parts == IF text = NoneText THEN <<>> ELSE split(text, Len(text))
        IN  /\ text = << "5", ":", "3", "0" >> => codec.parsed = 330
            /\ codec.parsed =
                  IF text = NoneText \/ text = <<>> THEN 0
                  ELSE IF Len(parts) > 3 \/ \E i \in 1..Len(parts) : ~is_int(parts[i]) THEN 0
                  ELSE IF Len(parts) = 3
                       THEN 3600 * int(parts[1]) + 60 * int(parts[2]) + int(parts[3])
                  ELSE IF Len(parts) = 2 THEN 60 * int(parts[1]) + int(parts[2])
                  ELSE int(parts[1])

\* C14: "5:30" was parsed
ParseTotalWitness ==
    /\ codec.op = "parse"
    /\ codec.seconds = None
    /\ codec.text = << "5", ":", "3", "0" >>
    /\ codec.parsed = 330

\* C11: merge precedence for active time.  Whenever erp_active_seconds is set,
\* the summary's total_active_time is the text of erp_active_seconds, whatever
\* the local active_seconds, session_start, erp_in_time, break totals and time.
ActiveMergePrecedence ==
    (lastOp = "get_daily_summary" /\ session.erp_active_seconds # None)
        => ret.total_active_time = format_hms(session.erp_active_seconds)

\* C11: the server reported 3600 s while other active time was counted locally
ActiveMergePrecedenceWitness ==
    /\ lastOp = "get_daily_summary"
    /\ session.erp_active_seconds = 3600
    /\ session.active_seconds > 0
    /\ session.erp_in_time # None
    /\ session.erp_break_seconds # None
    /\ ret.total_active_time = << "0", "1", ":", "0", "0", ":", "0", "0" >>

\* C12: merge precedence for break time.  The summary's total_break_time is the
\* text of erp_break_seconds when that is set, and of the local break_seconds
\* otherwise.
BreakMergePrecedence ==
    lastOp = "get_daily_summary"
        => ret.total_break_time =
              format_hms(IF session.erp_break_seconds # None
                         THEN session.erp_break_seconds ELSE session.break_seconds)

\* C12: the server reported 7 s of break while 40 s were counted locally
BreakMergePrecedenceWitness ==
    /\ lastOp = "get_daily_summary"
    /\ session.erp_break_seconds = 7
    /\ session.break_seconds = 40
    /\ ret.total_break_time = << "0", "0", ":", "0", "0", ":", "0", "7" >>

\* C15: idle routing.  A flush with positive delta in state CLOCKED_IN adds the
\* whole delta to one bucket and nothing to the others: active_seconds when not
\* idle, break_seconds when idle for IDLE_TIMEOUT_SECONDS or more, idle_seconds
\* when idle for less.
IdleRouting ==
    [][ ( /\ lastOp' \in {"update_activity", "get_daily_summary"}
          /\ session.state = CLOCKED_IN
          /\ session.last_update # None
          /\ now > session.last_update )
            => LET d == now - session.last_update
                   c == counters(session)
               IN  counters(session') =
                       IF ~session'.is_idle THEN << c[1] + d, c[2], c[3] >>
                       ELSE IF session'.current_idle_seconds >= 300
                            THEN << c[1], c[2] + d, c[3] >>
                            ELSE << c[1], c[2], c[3] + d >>
      ]_vars

\* C15: a sample of long idleness was flushed after time was credited to
\* idle_seconds, the bucket only this routing fills
IdleRoutingWitness ==
    /\ lastOp = "update_activity"
    /\ session.state = CLOCKED_IN
    /\ session.is_idle
    /\ session.current_idle_seconds >= 300
    /\ session.last_update = now
    /\ session.idle_seconds > 0
    /\ session.break_seconds > 0
    /\ session.break_start = None
    /\ credited(session) = worked

\* C16: end_break(force=True) on a clocked-in session with no break open
\* returns failure, sends no remote call and changes nothing.
ForcedEndBreakWithoutBreak ==
    [][ ( /\ lastOp' = "end_break_force"
          /\ session.state = CLOCKED_IN
          /\ session.break_start = None )
            => /\ ret' = "False"
               /\ sent' = <<>>
               /\ session' = session
      ]_vars

\* C16: a forced end_break was refused after a break had been started and ended
ForcedEndBreakWithoutBreakWitness ==
    /\ lastOp = "end_break_force"
    /\ ret = "False"
    /\ sent = <<>>
    /\ session.state = CLOCKED_IN
    /\ session.break_start = None
    /\ session.break_seconds > 0

\* C17: start_break() in a state other than CLOCKED_IN, or with break_start
\* set, returns failure, sends no remote call and changes nothing.
StartBreakNoOp ==
    [][ ( /\ lastOp' = "start_break"
          /\ session.state # CLOCKED_IN \/ session.break_start # None )
            => /\ ret' = "False"
               /\ sent' = <<>>
               /\ session' = session
      ]_vars

\* C17: start_break() was refused in CLOCKED_IN because break_start was set
StartBreakNoOpWitness ==
    /\ lastOp = "start_break"
    /\ ret = "False"
    /\ sent = <<>>
    /\ session.state = CLOCKED_IN
    /\ session.break_start # None

\* C18: a remote failure does not roll back the local transition.  When the
\* remote call of clock_in, clock_out, start_break or end_break fails or
\* raises, the operation returns and state, break_start and the counters are
\* what they are when the call succeeds.
RemoteFailureKeepsLocal ==
    [][ answer' \in {"fail", "raise"}
            => /\ lastOp' = "clock_in"
                    => /\ session'.state = CLOCKED_IN
                       /\ session'.break_start = None
                       /\ counters(session') = << 0, 0, 0 >>
               /\ lastOp' = "clock_out"
                    => /\ session'.state = LOGGED_OUT
                       /\ session'.break_start = session.break_start
                       /\ counters(session') = counters(accumulate_until_now(session, now))
                       /\ ret' = "False"
               /\ lastOp' = "start_break"
                    => /\ session'.state = ON_BREAK
                       /\ session'.break_start = now
                       /\ counters(session') = counters(accumulate_until_now(session, now))
                       /\ ret' = "True"
               /\ lastOp' \in {"end_break", "end_break_force"}
                    => /\ session'.state = CLOCKED_IN
                       /\ session'.break_start = None
                       /\ counters(session') =
                              counters(accumulate_until_now([session EXCEPT !.state = ON_BREAK], now))
                       /\ ret' = "True"
      ]_vars

\* C18: end_break returned with the break closed locally although its remote
\* call raised and the flag of the open server break stayed set
RemoteFailureKeepsLocalWitness ==
    /\ lastOp = "end_break"
    /\ answer = "raise"
    /\ ret = "True"
    /\ session.state = CLOCKED_IN
    /\ session.break_start = None
    /\ session.erp_break_open
    /\ session.break_seconds > 0

\* C19: clock_in is legal only from LOGGED_OUT.  A clock_in or clock_in_local
\* in CLOCKED_IN or ON_BREAK leaves state, session_start, break_start, the
\* counters and the server-override fields unchanged.
ClockInOnlyFromLoggedOut ==
    [][ ( /\ lastOp' \in {"clock_in", "clock_in_local"}
          /\ session.state \in {CLOCKED_IN, ON_BREAK} )
            => /\ session'.state = session.state
               /\ session'.session_start = session.session_start
               /\ session'.break_start = session.break_start
               /\ counters(session') = counters(session)
               /\ session'.erp_in_time = session.erp_in_time
               /\ session'.erp_out_time = session.erp_out_time
               /\ session'.erp_break_seconds = session.erp_break_seconds
               /\ session'.erp_active_seconds = session.erp_active_seconds
               /\ session'.erp_state_hint = session.erp_state_hint
               /\ session'.erp_break_open = session.erp_break_open
      ]_vars

\* C20: a clock_in or clock_in_local from LOGGED_OUT leaves state CLOCKED_IN,
\* the counters 0, break_start None, is_idle false, last_update = session_start
\* = now and every server-override field cleared.
ClockInResets ==
    [][ ( /\ lastOp' \in {"clock_in", "clock_in_local"}
          /\ session.state = LOGGED_OUT )
            => /\ session'.state = CLOCKED_IN
               /\ counters(session') = << 0, 0, 0 >>
               /\ session'.break_start = None
               /\ session'.is_idle = FALSE
               /\ session'.last_update = now
               /\ session'.session_start = now
               /\ session'.erp_in_time = None
               /\ session'.erp_out_time = None
               /\ session'.erp_break_seconds = None
               /\ session'.erp_active_seconds = None
               /\ session'.erp_state_hint = "None"
               /\ session'.erp_break_open = FALSE
      ]_vars

\* C20: a second session was opened by a clock-in that started a new monitor
\* thread, the earlier session having been logged out
ClockInResetsWitness ==
    /\ lastOp \in {"clock_in", "clock_in_local"}
    /\ now > 0
    /\ session.state = CLOCKED_IN
    /\ session.session_start = now
    /\ session.last_tick = now
    /\ session.sleep_break_active
    /\ session.erp_in_time = None

\* C21: apply_server_totals is a partial update.  An argument that is not
\* given leaves its erp_* field untouched; a call without on_break leaves
\* state, erp_state_hint and erp_break_open unchanged; a call with every
\* argument None changes no field of the session, last_update included.
PartialUpdate ==
    [][ lastOp' = "apply_server_totals"
            => /\ fetch'.in_time = None => session'.erp_in_time = session.erp_in_time
               /\ fetch'.out_time = None => session'.erp_out_time = session.erp_out_time
               /\ fetch'.break_seconds = None
                     => session'.erp_break_seconds = session.erp_break_seconds
               /\ fetch'.active_seconds = None
                     => session'.erp_active_seconds = session.erp_active_seconds
               /\ fetch'.on_break = "None"
                     => /\ session'.state = session.state
                        /\ session'.erp_state_hint = session.erp_state_hint
                        /\ session'.erp_break_open = session.erp_break_open
               /\ fetch' = NoFetch => session' = session
      ]_vars

\* C22: apply_server_totals with on_break given sets erp_break_open to
\* on_break and erp_state_hint to ON_BREAK or CLOCKED_IN accordingly; from
\* CLOCKED_IN or ON_BREAK the state after the call is the hint, from
\* LOGGED_OUT it stays LOGGED_OUT; no call sets the state to LOGGED_OUT.
ServerStateWins ==
    [][ lastOp' = "apply_server_totals"
            => /\ fetch'.on_break # "None"
                     => /\ session'.erp_break_open = (fetch'.on_break = "True")
                        /\ session'.erp_state_hint =
                               IF fetch'.on_break = "True" THEN ON_BREAK ELSE CLOCKED_IN
                        /\ session.state \in {CLOCKED_IN, ON_BREAK}
                              => session'.state = session'.erp_state_hint
                        /\ session.state = LOGGED_OUT => session'.state = LOGGED_OUT
               /\ session'.state = LOGGED_OUT => session.state = LOGGED_OUT
      ]_vars

\* C22: a fetch that reports an open break was applied to a session with no
\* local break and left it ON_BREAK
ServerStateWinsWitness ==
    /\ lastOp = "apply_server_totals"
    /\ fetch.on_break = "True"
    /\ session.state = ON_BREAK
    /\ session.erp_state_hint = ON_BREAK
    /\ session.erp_break_open
    /\ session.break_start = None
    /\ session.last_update = now
    /\ now > 0

\* C23: apply_server_totals never moves session_start forward.  With an
\* in_time that parses, session_start becomes the earlier of its value and
\* in_time (in_time when it was None) and erp_in_time becomes in_time; with
\* in_time absent, empty or unparseable session_start is unchanged.
SessionStartOnlyBackward ==
    [][ lastOp' = "apply_server_totals"
            => IF fetch'.in_time \in {None, EmptyText, Unparseable}
               THEN session'.session_start = session.session_start
               ELSE /\ session'.erp_in_time = fetch'.in_time
                    /\ session'.session_start =
                           IF session.session_start = None
                              \/ fetch'.in_time < session.session_start
                           THEN fetch'.in_time
                           ELSE session.session_start
      ]_vars

\* C23: the server's earlier in_time replaced the start of a session that was
\* opened later
SessionStartOnlyBackwardWitness ==
    /\ lastOp = "apply_server_totals"
    /\ fetch.in_time = awake_seconds
    /\ session.state = CLOCKED_IN
    /\ session.erp_in_time = awake_seconds
    /\ session.session_start = awake_seconds
    /\ session.last_tick > awake_seconds

\* C24: persistence failures are never fatal.  When local storage fails
\* during clock_out the session still ends LOGGED_OUT, flushed, and the remote
\* punch-out is still sent; when it fails while a sleep event is recorded the
\* tick has still added the sleep duration to break_seconds and set
\* last_update and last_tick to now.
PersistenceNeverFatal ==
    [][ /\ (lastOp' = "clock_out" /\ wrote' = <<>>)
            => /\ session'.state = LOGGED_OUT
               /\ ~session'.bg_running
               /\ counters(session') = counters(accumulate_until_now(session, now))
               /\ sent' = <<"punch_out">>
               /\ ret' \in {"True", "False"}
        /\ (lastOp' = "tick_gap" /\ wrote' = <<>>)
            => /\ session'.last_tick = now
               /\ session'.last_update = now
               /\ session.state \in {CLOCKED_IN, ON_BREAK}
                     => session'.break_seconds =
                            sleep_duration_seconds(session, now)
                            + IF tick_starts_break(session)
                              THEN accumulate_until_now(session, now).break_seconds
                              ELSE session.break_seconds
      ]_vars

\* C24: a clock_out whose history record was not stored ended a session that
\* a suspend had put on break
PersistenceNeverFatalWitness ==
    /\ lastOp = "clock_out"
    /\ wrote = <<>>
    /\ sent = <<"punch_out">>
    /\ session.state = LOGGED_OUT
    /\ session.last_update = now
    /\ session.break_seconds >= sleep_gap_seconds
    /\ session.sleep_break_active

\* C25: flush before transition.  clock_out, an accepted start_break, an
\* accepted end_break and get_daily_summary credit the time elapsed since
\* last_update to the bucket of the state the session is in when the operation
\* is called, none of it to the state the operation leaves; get_daily_summary
\* reads its totals after the flush.
FlushBeforeTransition ==
    [][ /\ lastOp' = "clock_out"
            => counters(session') = counters(accumulate_until_now(session, now))
        /\ lastOp' = "get_daily_summary"
            => /\ counters(session') = counters(accumulate_until_now(session, now))
               /\ ret'.total_idle_time = format_hms(session'.idle_seconds)
        /\ (lastOp' = "start_break" /\ ret' = "True")
            => counters(session') = counters(accumulate_until_now(session, now))
        /\ (lastOp' \in {"end_break", "end_break_force"} /\ ret' = "True")
            => counters(session') = counters(accumulate_until_now(session, now))
      ]_vars

\* C26: the summary freezes after clock-out.  In LOGGED_OUT after a session, with
\* erp_active_seconds and erp_out_time None and a start (erp_in_time or
\* session_start), get_daily_summary leaves last_update where clock_out set it
\* and total_active_time is (end - start) - break_total clamped at 0, where end
\* is that last_update, or now if it precedes the start: calls at later times
\* return the same total_active_time.
SummaryFrozenAfterClockOut ==
    [][ ( /\ lastOp' = "get_daily_summary"
          /\ session.state = LOGGED_OUT
          /\ session.last_tick # None
          /\ session.last_update # None
          /\ session.erp_active_seconds = None
          /\ session.erp_out_time = None
          /\ (session.erp_in_time # None \/ session.session_start # None) )
            => LET start == IF session.erp_in_time # None
                            THEN session.erp_in_time ELSE session.session_start
                   end == IF session.last_update < start THEN now ELSE session.last_update
               IN  /\ session'.last_update = session.last_update
                   /\ ret'.total_active_time =
                          format_hms(Max(0, Max(0, end - start) - break_total(session)))
      ]_vars

\* C27: an end_break that is accepted (state ON_BREAK, or force with
\* break_start set) flushes the accumulator, leaves state CLOCKED_IN,
\* break_start None and the sleep-break flag cleared, sends exactly one remote
\* break-end call whatever erp_break_open is, and sets erp_break_open to false
\* exactly when that call succeeds.
EndBreakEffect ==
    [][ ( /\ lastOp' \in {"end_break", "end_break_force"}
          /\ \/ session.state = ON_BREAK
             \/ lastOp' = "end_break_force" /\ session.break_start # None )
            => /\ ret' = "True"
               /\ session'.state = CLOCKED_IN
               /\ session'.break_start = None
               /\ ~session'.sleep_break_active
               /\ session'.last_update = now
               /\ counters(session') =
                      counters(accumulate_until_now([session EXCEPT !.state = ON_BREAK], now))
               /\ sent' = <<"end_break">>
               /\ session'.erp_break_open =
                      IF answer' = "ok" THEN FALSE ELSE session.erp_break_open
      ]_vars

\* C27: the break a suspend had started was ended by a call the server
\* refused, and the flag of the open server break stayed set
EndBreakEffectWitness ==
    /\ lastOp \in {"end_break", "end_break_force"}
    /\ ret = "True"
    /\ sent = <<"end_break">>
    /\ answer = "fail"
    /\ session.state = CLOCKED_IN
    /\ session.break_start = None
    /\ ~session.sleep_break_active
    /\ session.erp_break_open
    /\ session.break_seconds >= sleep_gap_seconds
    /\ session.last_update = now

\* C28: the suspend detector starts a break.  A tick that finds a gap of more
\* than 60 s in CLOCKED_IN with no break open and the gap not handled before
\* sets state ON_BREAK, break_start to now minus the sleep duration and the
\* sleep-break flag, and makes exactly one remote break-start call; the local
\* transition happens whatever that call answers.
SuspendStartsBreak ==
    [][ ( /\ lastOp' = "tick_gap"
          /\ session.state = CLOCKED_IN
          /\ session.break_start = None
          /\ ~session.sleep_gap_prehandled )
            => /\ session'.state = ON_BREAK
               /\ session'.break_start = now - sleep_duration_seconds(session, now)
               /\ session'.break_start = session.last_tick + monitor_interval_seconds
               /\ session'.sleep_break_active
               /\ sent' = <<"start_break">>
               /\ answer' \in ApiResults
      ]_vars

\* C28: a tick after a suspend put the session on break from the start of the
\* sleep although its remote break-start call raised
SuspendStartsBreakWitness ==
    /\ lastOp = "tick_gap"
    /\ answer = "raise"
    /\ sent = <<"start_break">>
    /\ session.state = ON_BREAK
    /\ session.sleep_break_active
    /\ session.break_start # None
    /\ session.break_start < now - sleep_gap_seconds
    /\ session.last_tick = now
    /\ ~server_break_open

\* C29: a suspend handled by the sleep and wake callbacks is not handled
\* again.  After on_sleep has started a break and on_wake has ended it around
\* a suspend of more than 60 s, the monitor's next tick starts no second break
\* (state stays CLOCKED_IN, break_start None, no remote break-start call) and
\* does not add the suspend to break_seconds a second time.
SuspendHandledOnce ==
    [][ (power = WakeHandled /\ lastOp' = "tick_gap")
            => /\ session'.state = CLOCKED_IN
               /\ session'.break_start = None
               /\ sent' = <<>>
               /\ session'.break_seconds = session.break_seconds
      ]_vars

\* C30: no double counting of a suspend gap while on break.  When the session
\* is ON_BREAK as the machine is suspended for more than 60 s, then whatever
\* update_activity, get_daily_summary and end_break calls run before the
\* monitor's first tick after the resume, break_seconds after that tick has
\* grown by the gap, and by no more than the wall-clock time since the flush
\* before the suspend: the gap is counted exactly once.
GapCountedOnceOnBreak ==
    [][ (power.kind = "slept_on_break" /\ lastOp' = "tick_gap")
            => LET growth == session'.break_seconds - power.break_seconds
               IN  /\ growth >= sleep_duration_seconds(session, now)
                   /\ growth <= now - power.last_update
      ]_vars

\* C31: a tick of the power monitor whose gap is at most 60 s changes no field
\* of the session but last_tick, records no sleep event and makes no remote
\* call; every tick, whichever branch it takes, ends with last_tick = now.
QuietTickFrame ==
    [][ /\ lastOp' = "tick"
            => /\ tick_gap(session, now) <= sleep_gap_seconds
               /\ session' = [session EXCEPT !.last_tick = now]
               /\ wrote' = <<>>
               /\ sent' = <<>>
        /\ lastOp' = "tick_gap"
            => /\ tick_gap(session, now) > sleep_gap_seconds
               /\ session'.last_tick = now
      ]_vars

\* C31: a tick without a sleep gap ran during a break and left the
\* accumulator unflushed
QuietTickFrameWitness ==
    /\ lastOp = "tick"
    /\ session.last_tick = now
    /\ session.state = ON_BREAK
    /\ session.last_update # None
    /\ session.last_update < now
    /\ session.break_seconds = 0

\* C32: no lost update on the shared counters.  When an accumulator call of
\* the GUI thread runs while the monitor thread is adding the sleep duration
\* to break_seconds, the break_seconds the monitor leaves holds both
\* increments: what the session held when the monitor stores, plus the sleep
\* duration.
NoLostUpdate ==
    [][ lastOp' = "tick_store"
            => session'.break_seconds =
                   session.break_seconds + monitor.sleep_duration_seconds
      ]_vars

\* C33: update_activity(is_active, idle_seconds) sets is_idle to not
\* is_active and current_idle_seconds to idle_seconds, appends one 0/1 sample
\* to a window of at most 60 samples, the oldest dropped first, sets the
\* activity score to 100 * sum(window) / len(window), which lies in [0, 100],
\* and then flushes the accumulator with the new is_idle for the whole delta.
ActivityWindow ==
    [][ lastOp' = "update_activity"
            => LET w == activity.samples
                   w2 == activity'.samples
                   x == IF session'.is_idle THEN 0 ELSE 1
               IN  /\ w2 = IF Len(w) < 60 THEN Append(w, x) ELSE Append(Tail(w), x)
                   /\ Len(w2) <= 60
                   /\ activity'.percent.den > 0
                   /\ activity'.percent.num * Len(w2) = 100 * sum(w2) * activity'.percent.den
                   /\ activity'.percent.num >= 0
                   /\ activity'.percent.num <= 100 * activity'.percent.den
                   /\ session'.current_idle_seconds = 0 <=> ~session'.is_idle
                   /\ session' = accumulate_until_now(
                                     [session EXCEPT
                                         !.is_idle = session'.is_idle,
                                         !.current_idle_seconds = session'.current_idle_seconds],
                                     now)
      ]_vars

\* C33: a full window of active samples took an idle sample, dropped its
\* oldest one, and the time since the last flush went to idle_seconds
ActivityWindowWitness ==
    /\ lastOp = "update_activity"
    /\ Len(activity.samples) = 60
    /\ sum(activity.samples) = 59
    /\ activity.samples[60] = 0
    /\ activity.percent.num = 5900
    /\ session.is_idle
    /\ session.state = CLOCKED_IN
    /\ session.idle_seconds = awake_seconds
    /\ session.active_seconds = 0
    /\ session.last_update = now


\* C34: cooperative cancellation.  Once clock_out has cleared the running
\* flag, and unless a later clock-in sets it again, every thread of the
\* screenshot loop, the window loop and the power-monitor loop reads the flag
\* at its loop test and exits, provided its sleeps and remote calls return.
Cancellation ==
    (lastOp = "clock_out") ~> (session.bg_running \/ workers = NoWorkers)

\* the last of the threads has left its loop after a clock-out
CancellationWitness ==
    /\ lastOp \in {"shot_loop", "window_loop", "tick", "tick_gap"}
    /\ workers = NoWorkers
    /\ ~session.bg_running
    /\ session.state = LOGGED_OUT
    /\ session.session_start # None

\* C35: at most one power-monitor thread is alive at any time, whatever the
\* sequence of clock-ins and clock-outs.
OneMonitor == workers.monitor <= 1


\* C36: clock_out is effective once per session.  A clock_out made while the
\* state is already LOGGED_OUT appends no history record and sends no
\* punch-out.
ClockOutOnce ==
    [][ (lastOp' = "clock_out" /\ session.state = LOGGED_OUT)
            => (wrote' = <<>> /\ sent' = <<>>) ]_vars


\* C37: apply_server_totals loses no elapsed time.  Called in CLOCKED_IN or
\* ON_BREAK later than last_update, it leaves the interval since last_update
\* credited to the bucket of the state held before the call: after the call
\* the counters, flushed, are what a flush in place of the call would have made
\* them.
ServerTotalsKeepElapsed ==
    [][ ( /\ lastOp' = "apply_server_totals"
          /\ session.state \in {CLOCKED_IN, ON_BREAK}
          /\ session.last_update # None
          /\ now > session.last_update )
            => counters(accumulate_until_now(session', now))
                   = counters(accumulate_until_now(session, now)) ]_vars


\* C38: the lock and unlock handlers.  From CLOCKED_IN with no break pending
\* and erp_break_open false, on_lock begins a break and sends exactly one
\* break-start call; the on_unlock that follows returns the session to
\* CLOCKED_IN with break_start None, sends exactly one break-end call and has
\* the locked interval credited to break_seconds.  An on_lock while a break is
\* pending sends no break-start call.
LockUnlock ==
    [][ /\ ( /\ lastOp' = "on_lock"
             /\ session.state = CLOCKED_IN
             /\ ~has_pending_break(session)
             /\ ~session.erp_break_open )
               => /\ sent' = <<"start_break">>
                  /\ session'.state = ON_BREAK
                  /\ session'.break_start = now
        /\ ( /\ lastOp' = "on_unlock"
             /\ locked.since # None
             /\ session.state = ON_BREAK
             /\ session.break_start = locked.since )
               => /\ sent' = <<"end_break">>
                  /\ session'.state = CLOCKED_IN
                  /\ session'.break_start = None
                  /\ session'.break_seconds = locked.break_seconds + (now - locked.since)
        /\ (lastOp' = "on_lock" /\ has_pending_break(session)) => sent' = <<>>
      ]_vars

\* the workstation was locked for awake_seconds after awake_seconds of work
LockUnlockWitness ==
    /\ lastOp = "on_unlock"
    /\ sent = <<"end_break">>
    /\ session.state = CLOCKED_IN
    /\ session.break_start = None
    /\ session.active_seconds = awake_seconds
    /\ session.break_seconds = awake_seconds
    /\ now = 2 * awake_seconds


\* C39: get_daily_summary changes nothing except through its flush: state,
\* session_start, break_start, is_idle and every erp_* field are after the call
\* what they were before it, and the three totals it formats are not negative.
SummaryFrame ==
    [][ lastOp' = "get_daily_summary"
            => /\ session' = accumulate_until_now(session, now)
               /\ \A f \in { "state", "session_start", "break_start", "is_idle",
                              "erp_in_time", "erp_out_time", "erp_break_seconds",
                              "erp_active_seconds", "erp_state_hint", "erp_break_open" } :
                      session'[f] = session[f]
               /\ active_total(session', now) >= 0
               /\ break_total(session') >= 0
               /\ Max(0, session'.idle_seconds) >= 0
               /\ ret' = [ total_active_time |-> format_hms(active_total(session', now)),
                           total_break_time |-> format_hms(break_total(session')),
                           total_idle_time |-> format_hms(Max(0, session'.idle_seconds)) ]
      ]_vars

\* a summary taken awake_seconds into a break, with the server's 7 s of break
\* shown in place of the awake_seconds the flush has just credited
SummaryFrameWitness ==
    /\ lastOp = "get_daily_summary"
    /\ session.state = ON_BREAK
    /\ session.break_start = 0
    /\ session.last_update = now
    /\ session.break_seconds = awake_seconds
    /\ session.erp_break_seconds = 7
    /\ ret.total_break_time = format_hms(7)
    /\ ret.total_active_time = format_hms(awake_seconds - 7)


====
